---- MODULE Spec2Model ----
(***************************************************************************)
(* A model of the astria-mcp client core: the error classifier             *)
(* (createErrorFromResponse), the job submission and polling engine        *)
(* (AstriaApiClient.generateImage / pollForPromptCompletion), the tune     *)
(* validator (validateLoraTune) and the generate_image tool handler        *)
(* (handleGenerateImage), which composes the prompt from LoRA references.  *)
(*                                                                         *)
(* Conventions.  A JavaScript value that the code only tests for           *)
(* truthiness is modelled by a value of one type whose "falsy" member      *)
(* stands for null / undefined / "" / 0: the empty string for strings,     *)
(* 0 for numeric ids and HTTP statuses, the empty sequence for arrays      *)
(* (every use of Job.images in the code is `!x || x.length === 0` or       *)
(* `x || []`, so an absent list and an empty list are indistinguishable).  *)
(* A message string is a sequence of parts, so that concatenation is \o.   *)
(***************************************************************************)
EXTENDS Integers, Sequences, FiniteSets, TLC

\* ------------------------------------------------------------------------
\* Bounds of the model
\* ------------------------------------------------------------------------

\* Largest attempt budget below the configured one that is explored.
MaxN == 13

\* Longest list of LoRA references in one tool call.
MaxRefs == 2

\* ------------------------------------------------------------------------
\* Program constants
\* ------------------------------------------------------------------------

\* API.POLLING.MAX_ATTEMPTS, the default of pollForPromptCompletion's maxAttempts
MAX_ATTEMPTS == 300

\* MODELS.FLUX.ID, the tune the prompts are created under
FLUX_ID == 1504944

\* the `attempts > 10` of the polling loop's error check
WarmUp == 10

\* ------------------------------------------------------------------------
\* Errors: AstriaErrorCode, AstriaError, raw failures
\* ------------------------------------------------------------------------

AstriaErrorCode ==
    {"UNKNOWN_ERROR", "NETWORK_ERROR", "TIMEOUT_ERROR", "AUTH_ERROR", "API_ERROR",
     "RATE_LIMIT_ERROR", "RESOURCE_NOT_FOUND", "VALIDATION_ERROR", "SDK_ERROR",
     "POLLING_TIMEOUT"}

\* The `details` of an error: nothing, the response payload, the thrown value
\* itself, the polling diagnostics, or the list of available models.
NoDetails == [kind |-> "none", tuneId |-> 0, promptId |-> 0, maxAttempts |-> 0]

PollDetails(tuneId, promptId, maxAttempts) ==
    [kind |-> "poll", tuneId |-> tuneId, promptId |-> promptId,
     maxAttempts |-> maxAttempts]

\* A response payload (error.response.data).  shape is "none" (no payload),
\* "string" (a bare string body, in text) or "object".  For an object, error
\* and message are its fields of those names ("" when absent or falsy),
\* isArray says that data.errors is an array, errors holds its elements, and
\* entries is Object.entries(data): every key with the type of its value
\* ("array", "string" or "other") and, for an array or a string, its strings.
Payload(shape, text, error, message, isArray, errors, entries) ==
    [shape |-> shape, text |-> text, error |-> error, message |-> message,
     isArray |-> isArray, errors |-> errors, entries |-> entries]

\* No response payload (error.response?.data is undefined).
NoData == Payload("none", "", "", "", FALSE, <<>>, <<>>)

\* A bare string body
StringData(text) == Payload("string", text, "", "", FALSE, <<>>, <<>>)

\* { error: text }
ErrorData(text) ==
    Payload("object", "", text, "", FALSE, <<>>,
            <<[field |-> "error", type |-> "string", values |-> <<text>>]>>)

\* { field: [values] }
FieldData(field, values) ==
    Payload("object", "", "", "", FALSE, <<>>,
            <<[field |-> field, type |-> "array", values |-> values]>>)

\* {}
EmptyData == Payload("object", "", "", "", FALSE, <<>>, <<>>)

\* Every thrown value has the same fields.  cls is the JavaScript class:
\* "axios" (axios.isAxiosError), "astria" (instanceof AstriaError), "zod"
\* (instanceof z.ZodError) or "plain" (any other Error).  code is the
\* AstriaErrorCode of an AstriaError and the axios code ("ECONNABORTED",
\* "ERR_NETWORK", ...) of an axios error.  status is error.response?.status for
\* an axios error and httpStatus for an AstriaError (0: undefined).
Thrown(cls, code, status, msg, details, data) ==
    [cls |-> cls, code |-> code, status |-> status, msg |-> msg,
     details |-> details, data |-> data]

\* new AstriaError(message, code, details, httpStatus)
AstriaError(msg, code, details, status) ==
    Thrown("astria", code, status, msg, details, NoData)

\* new Error(message)
PlainError(msg) == Thrown("plain", "", 0, msg, NoDetails, NoData)

\* A failure of the HTTP client: a response with a non-2xx status, or no
\* response and an axios code.
AxiosError(status, code, data) ==
    Thrown("axios", code, status, <<"Request failed">>, NoDetails, data)

NoError == Thrown("none", "", 0, <<>>, NoDetails, NoData)

\* AxiosCode testing the axios code before the status.
AxiosCodeSignalFirst(error) ==
    IF error.code = "ECONNABORTED" THEN "TIMEOUT_ERROR"
    ELSE IF error.code = "ERR_NETWORK" THEN "NETWORK_ERROR"
    ELSE IF error.status = 401 \/ error.status = 403 THEN "AUTH_ERROR"
    ELSE IF error.status = 404 THEN "RESOURCE_NOT_FOUND"
    ELSE IF error.status = 422 THEN "VALIDATION_ERROR"
    ELSE IF error.status = 429 THEN "RATE_LIMIT_ERROR"
    ELSE IF error.status # 0 THEN "API_ERROR"
    ELSE "UNKNOWN_ERROR"

\* The status -> code mapping of createErrorFromResponse for an axios error.
AxiosCode(error) ==
    IF error.status # 0
    THEN IF error.status = 401 \/ error.status = 403 THEN "AUTH_ERROR"
         ELSE IF error.status = 404 THEN "RESOURCE_NOT_FOUND"
         ELSE IF error.status = 422 THEN "VALIDATION_ERROR"
         ELSE IF error.status = 429 THEN "RATE_LIMIT_ERROR"
         ELSE "API_ERROR"
    ELSE IF error.code = "ECONNABORTED" THEN "TIMEOUT_ERROR"
    ELSE IF error.code = "ERR_NETWORK" THEN "NETWORK_ERROR"
    ELSE "UNKNOWN_ERROR"

\* parts.join(sep), for a sequence of messages
RECURSIVE Join(_, _)
Join(parts, sep) ==
    IF parts = <<>> THEN <<>>
    ELSE IF Len(parts) = 1 THEN parts[1]
    ELSE parts[1] \o <<sep>> \o Join(Tail(parts), sep)

\* One element of data.errors: `field: message` for an object that has both,
\* String(e) otherwise.
ErrorsElement(e) ==
    IF e.isObject /\ e.field # "" /\ e.message # ""
    THEN <<e.field, ": ", e.message>>
    ELSE IF e.isObject THEN <<"[object Object]">> ELSE <<e.str>>

\* The errorMessages array built from Object.entries(data): `field: a, b` for
\* an array value, `field: value` for a string value, nothing for any other.
RECURSIVE EntryMessages(_)
EntryMessages(entries) ==
    IF entries = <<>> THEN <<>>
    ELSE LET e == Head(entries)
             rest == EntryMessages(Tail(entries))
         IN  IF e.type = "array"
             THEN << <<e.field, ": ">> \o Join([i \in 1..Len(e.values) |-> <<e.values[i]>>], ", ") >> \o rest
             ELSE IF e.type = "string"
             THEN << <<e.field, ": ", e.values[1]>> >> \o rest
             ELSE rest

\* AxiosMessage reading the keyed arrays before the `error` and `message` fields.
AxiosMessageFieldsFirst(error) ==
    LET data == error.data
        generic == IF error.status # 0 THEN <<"API error (", ToString(error.status), ")">>
                   ELSE <<"API error (unknown status)">>
        errorMessages == EntryMessages(data.entries)
    IN  IF data.shape = "none"
        THEN IF error.msg # <<>> THEN error.msg ELSE <<"Network error">>
        ELSE IF data.shape = "object"
        THEN IF Len(errorMessages) > 0 THEN Join(errorMessages, "; ")
             ELSE IF data.error # "" THEN <<data.error>>
             ELSE IF data.message # "" THEN <<data.message>>
             ELSE IF data.isArray
             THEN Join([i \in 1..Len(data.errors) |-> ErrorsElement(data.errors[i])], ", ")
             ELSE generic
        ELSE <<data.text>>

\* The text createErrorFromResponse extracts from an axios error.
AxiosMessage(error) ==
    LET data == error.data
        generic == IF error.status # 0 THEN <<"API error (", ToString(error.status), ")">>
                   ELSE <<"API error (unknown status)">>
    IN  IF data.shape = "none"
        THEN IF error.msg # <<>> THEN error.msg ELSE <<"Network error">>
        ELSE IF data.shape = "object"
        THEN IF data.error # "" THEN <<data.error>>
             ELSE IF data.message # "" THEN <<data.message>>
             ELSE IF data.isArray
             THEN Join([i \in 1..Len(data.errors) |-> ErrorsElement(data.errors[i])], ", ")
             ELSE LET errorMessages == EntryMessages(data.entries)
                  IN  IF Len(errorMessages) > 0
                      THEN Join(errorMessages, "; ")
                      ELSE generic
        ELSE <<data.text>>

\* details = error: the thrown value itself, of which the class is kept.
ErrorDetails(error) == [kind |-> error.cls, tuneId |-> 0, promptId |-> 0, maxAttempts |-> 0]

\* details = error.response.data when there is a payload
AxiosDetails(error) ==
    IF error.data.shape = "none" THEN NoDetails
    ELSE [kind |-> "data", tuneId |-> 0, promptId |-> 0, maxAttempts |-> 0]

\* createErrorFromResponse leaving the code of any other error at its initial
\* value.
createErrorFromResponseNoSdk(error) ==
    IF error.cls = "axios"
    THEN AstriaError(<<"Astria SDK: ">> \o AxiosMessage(error), AxiosCode(error),
                     AxiosDetails(error), error.status)
    ELSE IF error.cls = "astria"
    THEN error
    ELSE AstriaError(<<"Astria SDK: ">> \o (IF error.msg # <<>> THEN error.msg
                                            ELSE <<"Unknown error">>),
                     "UNKNOWN_ERROR",
                     ErrorDetails(error),
                     0)

\* createErrorFromResponse without the `instanceof AstriaError` branch.
createErrorFromResponseRewraps(error) ==
    IF error.cls = "axios"
    THEN AstriaError(<<"Astria SDK: ">> \o AxiosMessage(error), AxiosCode(error),
                     AxiosDetails(error), error.status)
    ELSE AstriaError(<<"Astria SDK: ">> \o (IF error.msg # <<>> THEN error.msg
                                            ELSE <<"Unknown error">>),
                     "SDK_ERROR",
                     ErrorDetails(error),
                     0)

createErrorFromResponse(error) ==
    IF error.cls = "axios"
    THEN AstriaError(<<"Astria SDK: ">> \o AxiosMessage(error), AxiosCode(error),
                     AxiosDetails(error), error.status)
    ELSE IF error.cls = "astria"
    THEN error
    ELSE AstriaError(<<"Astria SDK: ">> \o (IF error.msg # <<>> THEN error.msg
                                            ELSE <<"Unknown error">>),
                     "SDK_ERROR",
                     ErrorDetails(error),
                     0)

\* AstriaError.toUserMessage
toUserMessage(error) ==
    error.msg \o
    (IF error.code = "AUTH_ERROR" THEN <<" Please check your API key.">>
     ELSE IF error.code = "RATE_LIMIT_ERROR" THEN <<" Please try again later.">>
     ELSE IF error.code = "RESOURCE_NOT_FOUND"
     THEN <<" The requested resource could not be found.">>
     ELSE IF error.code = "VALIDATION_ERROR"
     THEN <<" Please check your input parameters.">>
     ELSE IF error.code = "POLLING_TIMEOUT"
     THEN <<" The operation took too long to complete.">>
     ELSE <<>>)

\* The AstriaError handleMcpError works with.
McpAstriaError(error) ==
    IF error.cls = "astria" THEN error ELSE createErrorFromResponse(error)

\* handleMcpError(error, context) with isResource = false: the tool response.
handleMcpError(error, context) ==
    LET astriaError == McpAstriaError(error)
        errorMessage == IF error.cls = "zod"
                        THEN <<"Invalid input parameters: ">> \o error.msg
                        ELSE toUserMessage(astriaError)
    IN  [isError |-> TRUE, text |-> <<"Error in ", context, ": ">> \o errorMessage,
         images |-> <<>>, loras |-> <<>>]

\* ------------------------------------------------------------------------
\* The remote service: jobs, tunes and transport failures
\* ------------------------------------------------------------------------

ImageLists == {<<>>, <<"https://x/1.png">>}

ErrorTexts == {"", "boom"}

\* A Job (GenerateImageResponse).  id 0 stands for a response without an id.
\* seq is not a field of the response: it numbers the responses of one call,
\* 0 for the response to the POST and k for the response to the k-th GET.
Job(id, images, error, seq) ==
    [id |-> id, images |-> images, error |-> error, seq |-> seq]

NoJob == Job(0, <<>>, "", -1)

\* What the POST can answer: a Job with the id 42, or one without an id.
SubmitJobs == {Job(id, images, error, 0) :
                  id \in {0, 42}, images \in ImageLists, error \in ErrorTexts}

\* What the k-th GET of the job id can answer.
PollJobs(id, k) == {Job(id, images, error, k) :
                       images \in ImageLists, error \in ErrorTexts}

\* The three logical states of a Job; images take priority over error.
IsCompleted(job) == Len(job.images) > 0

IsFailed(job) == Len(job.images) = 0 /\ job.error # ""

IsProcessing(job) == Len(job.images) = 0 /\ job.error = ""

\* The failures the HTTP client can raise.
Failures ==
    {AxiosError(401, "ERR_BAD_REQUEST", ErrorData("Unauthorized")),
     AxiosError(404, "ERR_BAD_REQUEST", StringData("Not Found")),
     AxiosError(422, "ERR_BAD_REQUEST", FieldData("text", <<"must include 'ohwx'">>)),
     AxiosError(500, "ERR_BAD_RESPONSE", EmptyData),
     AxiosError(0, "ECONNABORTED", NoData),
     AxiosError(0, "ERR_NETWORK", NoData)}

\* Two trigger tokens, one a substring of the other, and the prompts of the
\* model, as sequences of characters.
Ohwx == <<"o", "h", "w", "x">>

Oh == <<"o", "h">>

Prompts == {<<"a", " ", "c", "a", "t">>, <<"o", "h", "w", "x", " ", "c", "a", "t">>}

\* A TuneInfo.  truthy is FALSE for an empty response body; trained_at "" is
\* null, model_type "" is null, token <<>> is null or empty.
TuneInfo(truthy, trained_at, model_type, token) ==
    [truthy |-> truthy, trained_at |-> trained_at, model_type |-> model_type,
     token |-> token]

NoTune == TuneInfo(FALSE, "", "", <<>>)

TuneInfos ==
    {NoTune} \cup
    {TuneInfo(TRUE, t, m, k) :
        t \in {"", "2024-01-01"}, m \in {"", "lora", "faceid"}, k \in {<<>>, Ohwx, Oh}}

\* ------------------------------------------------------------------------
\* The polling engine: AstriaApiClient.generateImage, pollForPromptCompletion
\* ------------------------------------------------------------------------

\* The model names generateImage accepts: MODELS.DEFAULT and MODELS.FLUX.NAME.
ValidModelName(modelName) == modelName = "flux"

\* The error generateImage throws for any other model name.
InvalidModelError ==
    AstriaError(<<"Invalid model name">>, "VALIDATION_ERROR",
                [kind |-> "models", tuneId |-> 0, promptId |-> 0, maxAttempts |-> 0], 0)

\* ShouldPoll without the test of the images.
ShouldPollAnyImages(result) == result.id # 0

\* generateImage polls when the response to the POST has an id and no images.
ShouldPoll(result) == result.id # 0 /\ Len(result.images) = 0

\* LoopContinues with one iteration too many.
LoopContinuesInclusive(n, maxN) == n <= maxN

\* The loop condition of pollForPromptCompletion.
LoopContinues(n, maxN) == n < maxN

\* ImagesReady giving way to an error: images count only on a Job without one.
ImagesReadyUnlessError(result) == Len(result.images) > 0 /\ result.error = ""

\* ImagesReady asking for more than one image.
ImagesReadySeveral(result) == Len(result.images) > 1

\* A polled Job with images ends the loop.
ImagesReady(result) == Len(result.images) > 0

\* ErrorDetected without the warm-up: an error ends the loop at any iteration.
ErrorDetectedAtOnce(n, result) == result.error # ""

\* ErrorDetected with the threshold reached one iteration early.
ErrorDetectedEarly(n, result) == n >= WarmUp /\ result.error # ""

\* A polled Job with an error ends the loop once more than WarmUp iterations
\* have elapsed.
ErrorDetected(n, result) == n > WarmUp /\ result.error # ""

\* The catch block inside the polling loop.
PollCatch(error) == createErrorFromResponse(error)

\* The error thrown when the loop ends without a result.
PollTimeoutError(tuneId, promptId, maxN) ==
    AstriaError(<<"Prompt generation timed out after ", ToString(maxN), " attempts">>,
                "POLLING_TIMEOUT", PollDetails(tuneId, promptId, maxN), 0)

\* RunCatch wrapping whatever it catches in a new error.
RunCatchWraps(error) ==
    AstriaError(<<"Failed to generate image: ">> \o error.msg, "API_ERROR",
                ErrorDetails(error), 0)

\* The catch block of generateImage.
RunCatch(error) == createErrorFromResponse(error)

\* The attempt budgets a direct call of generateImage is explored with, and
\* those a tool call is explored with.
RunBudgets == (1..MaxN) \cup {MAX_ATTEMPTS}

ToolBudgets == {1, MaxN}

\* ------------------------------------------------------------------------
\* The tune validator and the prompt composer
\* ------------------------------------------------------------------------

\* What retrieveTune can end with: the response body, or a failure of the GET.
TuneResponses ==
    {[failed |-> FALSE, tune |-> t, failure |-> NoError] : t \in TuneInfos} \cup
    {[failed |-> TRUE, tune |-> NoTune, failure |-> f] : f \in Failures}

\* No retrieveTune call has ended.
NoFetch == [failed |-> FALSE, tune |-> NoTune, failure |-> NoError]

\* The catch block of retrieveTune.
RetrieveCatch(error) == createErrorFromResponse(error)

\* ValidateCatch wrapping whatever it catches.
ValidateCatchWraps(tuneId, error) ==
    AstriaError(<<"Failed to validate LoRA tune with ID ", ToString(tuneId), ": ">>
                    \o error.msg, "API_ERROR", NoDetails, 0)

\* The catch block of validateLoraTune.
ValidateCatch(tuneId, error) ==
    IF error.cls = "astria" THEN error
    ELSE AstriaError(<<"Failed to validate LoRA tune with ID ", ToString(tuneId), ": ">>
                        \o error.msg, "API_ERROR", NoDetails, 0)

\* ValidateError without the test of trained_at.
ValidateErrorSkipsTraining(tuneId, resp) ==
    IF resp.failed
    THEN ValidateCatch(tuneId, RetrieveCatch(resp.failure))
    ELSE IF ~resp.tune.truthy
    THEN ValidateCatch(tuneId,
            AstriaError(<<"LoRA tune with ID ", ToString(tuneId), " not found.">>,
                        "RESOURCE_NOT_FOUND", NoDetails, 0))
    ELSE IF resp.tune.model_type # "lora"
    THEN ValidateCatch(tuneId,
            AstriaError(<<"Tune with ID ", ToString(tuneId), " is not a LoRA (type: ",
                          IF resp.tune.model_type # "" THEN resp.tune.model_type
                          ELSE "unknown", ").">>,
                        "VALIDATION_ERROR", NoDetails, 0))
    ELSE NoError

\* ValidateError without the test of model_type.
ValidateErrorAnyType(tuneId, resp) ==
    IF resp.failed
    THEN ValidateCatch(tuneId, RetrieveCatch(resp.failure))
    ELSE IF ~resp.tune.truthy
    THEN ValidateCatch(tuneId,
            AstriaError(<<"LoRA tune with ID ", ToString(tuneId), " not found.">>,
                        "RESOURCE_NOT_FOUND", NoDetails, 0))
    ELSE IF resp.tune.trained_at = ""
    THEN ValidateCatch(tuneId,
            AstriaError(<<"LoRA tune with ID ", ToString(tuneId),
                          " exists but is not trained yet.">>,
                        "VALIDATION_ERROR", NoDetails, 0))
    ELSE NoError

\* validateLoraTune(tuneId), given what retrieveTune ended with: the error it
\* throws, or NoError when it returns the tune.
ValidateError(tuneId, resp) ==
    IF resp.failed
    THEN ValidateCatch(tuneId, RetrieveCatch(resp.failure))
    ELSE IF ~resp.tune.truthy
    THEN ValidateCatch(tuneId,
            AstriaError(<<"LoRA tune with ID ", ToString(tuneId), " not found.">>,
                        "RESOURCE_NOT_FOUND", NoDetails, 0))
    ELSE IF resp.tune.trained_at = ""
    THEN ValidateCatch(tuneId,
            AstriaError(<<"LoRA tune with ID ", ToString(tuneId),
                          " exists but is not trained yet.">>,
                        "VALIDATION_ERROR", NoDetails, 0))
    ELSE IF resp.tune.model_type # "lora"
    THEN ValidateCatch(tuneId,
            AstriaError(<<"Tune with ID ", ToString(tuneId), " is not a LoRA (type: ",
                          IF resp.tune.model_type # "" THEN resp.tune.model_type
                          ELSE "unknown", ").">>,
                        "VALIDATION_ERROR", NoDetails, 0))
    ELSE NoError

\* String(weight) for a weight given in tenths: 5 is "0.5", 10 is "1".
WeightToString(w) ==
    IF w % 10 = 0 THEN <<ToString(w \div 10)>>
    ELSE <<ToString(w \div 10), ".", ToString(w % 10)>>

\* `<lora:${lora.tune_id}:${lora.weight || 1.0}>`
LoraTag(lora) ==
    <<"<lora:", ToString(lora.tune_id), ":">>
        \o WeightToString(IF lora.weight # 0 THEN lora.weight ELSE 10) \o <<">">>

\* text.includes(token)
Includes(text, token) ==
    \E i \in 0..(Len(text) - Len(token)) : SubSeq(text, i + 1, i + Len(token)) = token

\* The prompt text after a validated tune: its token is put in front unless
\* the tune has none or the text already includes it.
\* AddsToken adding every non-null token, in the text already or not.
AddsTokenAlways(promptText, tune) == tune.token # <<>>

\* The condition under which the composer adds a tune's token to the text.
AddsToken(promptText, tune) ==
    tune.token # <<>> /\ ~Includes(promptText, tune.token)

WithToken(promptText, tune) ==
    IF AddsToken(promptText, tune)
    THEN tune.token \o <<" ">> \o promptText
    ELSE promptText

\* The Error the composer throws when validateLoraTune threw `error` for `lora`.
ComposeError(lora, error) ==
    PlainError(<<"Invalid LoRA tune ID ", ToString(lora.tune_id), ": ">> \o error.msg
               \o <<"\n\nCommon LoRA issues: ...">>)

\* FinalPrompt joining the prefix and the text without the space.
FinalPromptNoSpace(loraPrefix, promptText) == loraPrefix \o promptText

\* The text sent to the service: the prefix, when there is one, and the text.
FinalPrompt(loraPrefix, promptText) ==
    IF loraPrefix # <<>> THEN loraPrefix \o <<" ">> \o promptText ELSE promptText

\* SchemaAccepts with the lower limit of the weight exclusive.
SchemaAcceptsAboveMin(p) ==
    /\ p.model = "flux"
    /\ \A i \in 1..Len(p.lora_tunes) :
          /\ p.lora_tunes[i].tune_id > 0
          /\ p.lora_tunes[i].weight > 1
          /\ p.lora_tunes[i].weight <= 10

\* GenerateImageSchema.parse: the model is one of AVAILABLE_MODELS, every
\* tune_id a positive integer and every weight (in tenths) within 0.1..1.0.
SchemaAccepts(p) ==
    /\ p.model = "flux"
    /\ \A i \in 1..Len(p.lora_tunes) :
          /\ p.lora_tunes[i].tune_id > 0
          /\ p.lora_tunes[i].weight >= 1
          /\ p.lora_tunes[i].weight <= 10

ZodError == Thrown("zod", "", 0, <<"invalid input">>, NoDetails, NoData)

\* The Error thrown for LoRA references with a model other than flux.
ModelMismatchError ==
    PlainError(<<"LoRA fine-tunes can only be used with their compatible base models.">>)

\* The references a tool call can carry, and the calls themselves.
LoraRefs == [tune_id : {1, 2}, weight : {0, 5, 10, 11}]

RECURSIVE SeqsUpTo(_, _)
SeqsUpTo(S, n) ==
    IF n = 0 THEN {<<>>}
    ELSE LET shorter == SeqsUpTo(S, n - 1)
         IN  shorter \cup {Append(q, x) : q \in {r \in shorter : Len(r) = n - 1}, x \in S}

ToolParams ==
    [prompt : Prompts, model : {"flux", "sd15"}, lora_tunes : SeqsUpTo(LoraRefs, MaxRefs)]

NoParams == [prompt |-> <<>>, model |-> "", lora_tunes |-> <<>>]

\* The hint the catch block of handleGenerateImage adds to a message.
Hint(msg) ==
    IF \E i \in 1..(Len(msg) - 2) :
          msg[i] = "text" /\ msg[i + 1] = ": " /\ msg[i + 2] = "must include 'ohwx'"
    THEN <<"\n\nThis error occurs when using a LoRA that requires a specific token">>
    ELSE IF \E i \in 1..Len(msg) : msg[i] = "Model branch mismatch"
    THEN <<"\n\nThis error occurs when trying to combine LoRAs from different branches">>
    ELSE IF \E i \in 1..(Len(msg) - 2) :
               msg[i] = "API error (" /\ msg[i + 1] = "422" /\ msg[i + 2] = ")"
    THEN <<"\n\nThis may be due to: ...">>
    ELSE <<>>

\* The catch block of handleGenerateImage in its two forms: the one that
\* formats the message itself, and the one that uses handleMcpError.
InlineCatch(error) ==
    LET errorMessage == IF error.msg # <<>> THEN error.msg ELSE <<"Unknown error">>
    IN  [isError |-> TRUE,
         text |-> IF error.cls = "zod"
                  THEN <<"Invalid input parameters: ">> \o error.msg
                  ELSE <<"Error generating image: ">> \o errorMessage \o Hint(errorMessage),
         images |-> <<>>, loras |-> <<>>]

WithHint(error) == [error EXCEPT !.msg = error.msg \o Hint(error.msg)]

McpCatch(error) == handleMcpError(WithHint(error), "generate_image")

\* The response when generateImage returned a Job without images.
NoImagesResponse ==
    [isError |-> FALSE, text |-> <<"No images were generated.">>,
     images |-> <<>>, loras |-> <<>>]

\* The response when generateImage returned images; loras lists, per
\* reference, whether the summary shows the tune's details.
SuccessResponse(images, loras) ==
    [isError |-> FALSE, text |-> <<"Image generated successfully!">>,
     images |-> images, loras |-> loras]

NoResponse == [isError |-> FALSE, text |-> <<>>, images |-> <<>>, loras |-> <<>>]

\* ------------------------------------------------------------------------
\* State
\* ------------------------------------------------------------------------

VARIABLES
    entry,        \* "run": generateImage is called directly; "tool": handleGenerateImage
    pc,           \* where the call is
    params,       \* the tool call's params
    modelName,    \* generateImage's modelName
    maxAttempts,  \* pollForPromptCompletion's maxAttempts
    idx,          \* the position of the reference loops in lora_tunes
    promptText,   \* handleGenerateImage's promptText
    loraPrefix,   \* handleGenerateImage's loraPrefix
    sentText,     \* the prompt text of the POST, <<>> before it
    fetches,      \* the tune ids retrieveTune was called with, in order
    tuneErr,      \* what validateLoraTune threw in the composition loop
    posts,        \* POSTs issued
    gets,         \* GETs of the job issued
    delays,       \* delays waited
    attempts,     \* pollForPromptCompletion's attempts
    submitted,    \* the response to the POST
    polled,       \* the response to the latest GET
    allProcessing,\* every GET so far returned a Job with no images and no error
    failedReq,    \* the request of generateImage that failed: "", "POST" or "GET"
    failure,      \* the failure the HTTP client raised for it
    outcome,      \* of generateImage: "none", "returned" or "raised"
    result,       \* the Job generateImage returned
    err,          \* the error thrown to the caller of generateImage, or caught
                  \* by handleGenerateImage
    loras,        \* the summary lines of the response under construction
    response,     \* what handleGenerateImage returned
    tuneResp,     \* how retrieveTune ended, for validateLoraTune called on its own
    tuneInfo,     \* what validateLoraTune, called on its own, returned
    injected,     \* the tokens the composition loop logged as added, in order
    raw,          \* the value createErrorFromResponse is called with
    once,         \* createErrorFromResponse(raw)
    twice,        \* createErrorFromResponse(once)
    calls         \* the state of each of the calls that run concurrently

vars == <<entry, pc, params, modelName, maxAttempts, idx, promptText, loraPrefix,
          sentText, fetches, tuneErr, posts, gets, delays, attempts, submitted,
          polled, allProcessing, failedReq, failure, outcome, result, err, loras,
          response, injected, tuneResp, tuneInfo, raw, once, twice, calls>>

toolVars == <<params, idx, promptText, loraPrefix, fetches, tuneErr, loras, response,
             injected>>

\* The variables of validateLoraTune and of createErrorFromResponse when they
\* are called on their own, and those of the calls that run concurrently.
unitVars == <<tuneResp, tuneInfo, raw, once, twice, calls>>

pollVars == <<posts, gets, delays, attempts, submitted, polled, allProcessing>>

failVars == <<failedReq, failure>>

runArgs == <<entry, modelName, maxAttempts>>

\* No concurrent calls.
NoCalls == <<>>

\* Nothing has happened yet.
Fresh ==
    /\ idx = 0
    /\ promptText = <<>>
    /\ loraPrefix = <<>>
    /\ fetches = <<>>
    /\ tuneErr = NoError
    /\ posts = 0
    /\ gets = 0
    /\ delays = 0
    /\ attempts = 0
    /\ submitted = NoJob
    /\ polled = NoJob
    /\ allProcessing = TRUE
    /\ failedReq = ""
    /\ failure = NoError
    /\ outcome = "none"
    /\ result = NoJob
    /\ err = NoError
    /\ loras = <<>>
    /\ response = NoResponse
    /\ tuneResp = NoFetch
    /\ tuneInfo = NoTune
    /\ injected = <<>>
    /\ once = NoError
    /\ twice = NoError

Init ==
    /\ entry \in {"run", "tool"}
    /\ IF entry = "run"
       THEN /\ pc = "run"
            /\ params = NoParams
            /\ modelName \in {"flux", "sd15"}
            /\ maxAttempts \in RunBudgets
            /\ sentText \in Prompts
       ELSE /\ pc = "tool"
            /\ params \in ToolParams
            /\ modelName = ""
            /\ maxAttempts \in ToolBudgets
            /\ sentText = <<>>
    /\ raw = NoError
    /\ calls = NoCalls
    /\ Fresh

\* ------------------------------------------------------------------------
\* generateImage
\* ------------------------------------------------------------------------

\* generateImage returns job to its caller.
Return(job) ==
    /\ outcome' = "returned"
    /\ result' = job
    /\ err' = err
    /\ pc' = IF entry = "run" THEN "done" ELSE "respond"

\* error is thrown inside generateImage's try block.
Raise(error) ==
    /\ outcome' = "raised"
    /\ result' = result
    /\ err' = RunCatch(error)
    /\ pc' = IF entry = "run" THEN "done" ELSE "catch"

\* generateImage up to its first await: the model name is checked and the
\* POST is issued.
Submit ==
    /\ pc = "run"
    /\ IF ValidModelName(modelName)
       THEN /\ posts' = posts + 1
            /\ pc' = "await_post"
            /\ UNCHANGED <<outcome, result, err>>
       ELSE /\ Raise(InvalidModelError)
            /\ posts' = posts
    /\ UNCHANGED <<gets, delays, attempts, submitted, polled, allProcessing>>
    /\ UNCHANGED <<failVars, runArgs, sentText, toolVars, unitVars>>

\* The POST answers with a Job: generateImage returns it or starts polling.
PostReturns ==
    /\ pc = "await_post"
    /\ \E job \in SubmitJobs :
          /\ submitted' = job
          /\ IF ShouldPoll(job)
             THEN /\ pc' = "poll"
                  /\ attempts' = 0
                  /\ UNCHANGED <<outcome, result, err>>
             ELSE /\ Return(job)
                  /\ attempts' = attempts
    /\ UNCHANGED <<posts, gets, delays, polled, allProcessing>>
    /\ UNCHANGED <<failVars, runArgs, sentText, toolVars, unitVars>>

\* PostFails issuing the POST again, once, instead of throwing.
PostFailsRetries ==
    /\ pc = "await_post"
    /\ posts < 2
    /\ \E f \in Failures : failure' = f
    /\ failedReq' = "POST"
    /\ posts' = posts + 1
    /\ UNCHANGED <<pc, gets, delays, attempts, submitted, polled, allProcessing>>
    /\ UNCHANGED <<outcome, result, err, runArgs, sentText, toolVars, unitVars>>

\* The POST fails.
PostFails ==
    /\ pc = "await_post"
    /\ \E f \in Failures :
          /\ failure' = f
          /\ Raise(f)
    /\ failedReq' = "POST"
    /\ UNCHANGED <<pollVars, runArgs, sentText, toolVars, unitVars>>

\* The head of the polling loop: the next GET is issued, or the loop is over
\* and the timeout error is thrown.
PollNext ==
    /\ pc = "poll"
    /\ IF LoopContinues(attempts, maxAttempts)
       THEN /\ gets' = gets + 1
            /\ pc' = "await_get"
            /\ UNCHANGED <<outcome, result, err>>
       ELSE /\ Raise(PollTimeoutError(FLUX_ID, submitted.id, maxAttempts))
            /\ gets' = gets
    /\ UNCHANGED <<posts, delays, attempts, submitted, polled, allProcessing>>
    /\ UNCHANGED <<failVars, runArgs, sentText, toolVars, unitVars>>

\* The GET answers with a Job: the loop returns it or goes on to the delay.
GetReturns ==
    /\ pc = "await_get"
    /\ \E job \in PollJobs(submitted.id, gets) :
          /\ polled' = job
          /\ allProcessing' = (allProcessing /\ IsProcessing(job))
          /\ IF ImagesReady(job) \/ ErrorDetected(attempts, job)
             THEN Return(job)
             ELSE /\ pc' = "delay"
                  /\ UNCHANGED <<outcome, result, err>>
    /\ UNCHANGED <<posts, gets, delays, attempts, submitted>>
    /\ UNCHANGED <<failVars, runArgs, sentText, toolVars, unitVars>>

\* GetFails swallowing the failure: the iteration counts as one more attempt.
GetFailsSwallowed ==
    /\ pc = "await_get"
    /\ \E f \in Failures : failure' = f
    /\ failedReq' = "GET"
    /\ allProcessing' = FALSE
    /\ pc' = "delay"
    /\ UNCHANGED <<posts, gets, delays, attempts, submitted, polled>>
    /\ UNCHANGED <<outcome, result, err, runArgs, sentText, toolVars, unitVars>>

\* The GET fails: the loop's catch block classifies the failure and throws.
GetFails ==
    /\ pc = "await_get"
    /\ \E f \in Failures :
          /\ failure' = f
          /\ Raise(PollCatch(f))
    /\ failedReq' = "GET"
    /\ allProcessing' = FALSE
    /\ UNCHANGED <<posts, gets, delays, attempts, submitted, polled>>
    /\ UNCHANGED <<runArgs, sentText, toolVars, unitVars>>

\* The delay is over: attempts++ and back to the head of the loop.
DelayElapses ==
    /\ pc = "delay"
    /\ delays' = delays + 1
    /\ attempts' = attempts + 1
    /\ pc' = "poll"
    /\ UNCHANGED <<posts, gets, submitted, polled, allProcessing>>
    /\ UNCHANGED <<outcome, result, err, failVars, runArgs, sentText, toolVars, unitVars>>

\* ------------------------------------------------------------------------
\* handleGenerateImage
\* ------------------------------------------------------------------------

runVars == <<modelName, sentText, pollVars, failVars, outcome, result>>

\* The reference the loop is at.
Lora == params.lora_tunes[idx]

\* handleGenerateImage up to the reference loop: the params are parsed and
\* LoRA references are refused for any model but flux.
ToolParse ==
    /\ pc = "tool"
    /\ IF ~SchemaAccepts(params)
       THEN /\ err' = ZodError
            /\ pc' = "catch"
            /\ UNCHANGED <<promptText, idx>>
       ELSE IF Len(params.lora_tunes) > 0 /\ params.model # "flux"
       THEN /\ err' = ModelMismatchError
            /\ pc' = "catch"
            /\ UNCHANGED <<promptText, idx>>
       ELSE /\ promptText' = params.prompt
            /\ idx' = 1
            /\ pc' = "compose"
            /\ err' = err
    /\ UNCHANGED <<unitVars, injected>>
    /\ UNCHANGED <<entry, maxAttempts, params, loraPrefix, fetches, tuneErr, loras,
                   response, runVars>>

\* ComposeNext fetching the tunes of all the remaining references at once.
ComposeNextFanOut ==
    /\ pc = "compose"
    /\ IF idx <= Len(params.lora_tunes)
       THEN /\ fetches' = fetches \o [i \in 1..(Len(params.lora_tunes) - idx + 1) |->
                                         params.lora_tunes[idx + i - 1].tune_id]
            /\ pc' = "await_tune"
            /\ UNCHANGED <<promptText, modelName, sentText>>
       ELSE /\ promptText' = FinalPrompt(loraPrefix, promptText)
            /\ modelName' = params.model
            /\ sentText' = promptText'
            /\ pc' = "run"
            /\ fetches' = fetches
    /\ UNCHANGED <<unitVars, injected>>
    /\ UNCHANGED <<entry, maxAttempts, params, idx, loraPrefix, tuneErr, loras,
                   response, pollVars, failVars, outcome, result, err>>

\* The head of the composition loop: validateLoraTune fetches the next
\* reference's tune, or the loop is over and generateImage is called with the
\* composed prompt.
ComposeNext ==
    /\ pc = "compose"
    /\ IF idx <= Len(params.lora_tunes)
       THEN /\ fetches' = Append(fetches, Lora.tune_id)
            /\ pc' = "await_tune"
            /\ UNCHANGED <<promptText, modelName, sentText>>
       ELSE /\ promptText' = FinalPrompt(loraPrefix, promptText)
            /\ modelName' = params.model
            /\ sentText' = promptText'
            /\ pc' = "run"
            /\ fetches' = fetches
    /\ UNCHANGED <<unitVars, injected>>
    /\ UNCHANGED <<entry, maxAttempts, params, idx, loraPrefix, tuneErr, loras,
                   response, pollVars, failVars, outcome, result, err>>

\* TuneReturns going on to the remaining references after a failed validation
\* and throwing at the last one.
TuneReturnsKeepGoing ==
    /\ pc = "await_tune"
    /\ \E resp \in TuneResponses :
          /\ LET e == ValidateError(Lora.tune_id, resp)
             IN  IF e = NoError /\ tuneErr = NoError
                 THEN /\ loraPrefix' = loraPrefix \o LoraTag(Lora)
                      /\ promptText' = WithToken(promptText, resp.tune)
                      /\ injected' = IF AddsToken(promptText, resp.tune)
                                     THEN Append(injected, resp.tune.token)
                                     ELSE injected
                      /\ idx' = idx + 1
                      /\ pc' = "compose"
                      /\ UNCHANGED <<tuneErr, err>>
                 ELSE /\ tuneErr' = IF tuneErr = NoError THEN e ELSE tuneErr
                      /\ err' = IF tuneErr = NoError THEN ComposeError(Lora, e) ELSE err
                      /\ IF idx < Len(params.lora_tunes)
                         THEN pc' = "compose" /\ idx' = idx + 1
                         ELSE pc' = "catch" /\ idx' = idx
                      /\ UNCHANGED <<loraPrefix, promptText>>
                      /\ injected' = injected
    /\ UNCHANGED <<unitVars, entry, maxAttempts, params, fetches, loras, response, runVars>>

\* TuneReturns leaving out a reference that fails validation instead of
\* throwing.
TuneReturnsSkipsInvalid ==
    /\ pc = "await_tune"
    /\ \E resp \in TuneResponses :
          /\ LET e == ValidateError(Lora.tune_id, resp)
             IN  IF e = NoError
                 THEN /\ loraPrefix' = loraPrefix \o LoraTag(Lora)
                      /\ promptText' = WithToken(promptText, resp.tune)
                      /\ injected' = IF AddsToken(promptText, resp.tune)
                                     THEN Append(injected, resp.tune.token)
                                     ELSE injected
                      /\ UNCHANGED <<tuneErr, err>>
                 ELSE /\ tuneErr' = e
                      /\ err' = ComposeError(Lora, e)
                      /\ UNCHANGED <<loraPrefix, promptText>>
                      /\ injected' = injected
    /\ idx' = idx + 1
    /\ pc' = "compose"
    /\ UNCHANGED <<unitVars, entry, maxAttempts, params, fetches, loras, response, runVars>>

\* retrieveTune ends: the tune is validated, its tag and token are added, or
\* the composer throws.
TuneReturns ==
    /\ pc = "await_tune"
    /\ \E resp \in TuneResponses :
          /\ LET e == ValidateError(Lora.tune_id, resp)
             IN  IF e = NoError
                 THEN /\ loraPrefix' = loraPrefix \o LoraTag(Lora)
                      /\ promptText' = WithToken(promptText, resp.tune)
                      /\ injected' = IF AddsToken(promptText, resp.tune)
                                     THEN Append(injected, resp.tune.token)
                                     ELSE injected
                      /\ idx' = idx + 1
                      /\ pc' = "compose"
                      /\ UNCHANGED <<tuneErr, err>>
                 ELSE /\ tuneErr' = e
                      /\ err' = ComposeError(Lora, e)
                      /\ pc' = "catch"
                      /\ UNCHANGED <<loraPrefix, promptText, idx>>
                      /\ injected' = injected
    /\ UNCHANGED <<unitVars, entry, maxAttempts, params, fetches, loras, response, runVars>>

\* generateImage returned: without images the response says so, with images
\* the summary of the references starts.
Respond ==
    /\ pc = "respond"
    /\ IF Len(result.images) > 0
       THEN /\ idx' = 1
            /\ pc' = "summary"
            /\ response' = response
       ELSE /\ response' = NoImagesResponse
            /\ pc' = "done"
            /\ idx' = idx
    /\ UNCHANGED <<unitVars, injected>>
    /\ UNCHANGED <<entry, maxAttempts, params, promptText, loraPrefix, fetches,
                   tuneErr, loras, err, runVars>>

\* The head of the summary loop: the next reference's tune is fetched again,
\* or the loop is over and the response is returned.
SummaryNext ==
    /\ pc = "summary"
    /\ IF idx <= Len(params.lora_tunes)
       THEN /\ fetches' = Append(fetches, Lora.tune_id)
            /\ pc' = "await_summary"
            /\ response' = response
       ELSE /\ response' = SuccessResponse(result.images, loras)
            /\ pc' = "done"
            /\ fetches' = fetches
    /\ UNCHANGED <<unitVars, injected>>
    /\ UNCHANGED <<entry, maxAttempts, params, idx, promptText, loraPrefix, tuneErr,
                   loras, err, runVars>>

\* SummaryReturns without the try/catch around validateLoraTune: a tune that
\* does not validate any more throws to the handler's catch block.
SummaryReturnsThrows ==
    /\ pc = "await_summary"
    /\ \E resp \in TuneResponses :
          LET e == ValidateError(Lora.tune_id, resp)
          IN  IF e = NoError
              THEN /\ loras' = Append(loras, [tune_id |-> Lora.tune_id, weight |-> Lora.weight,
                                              detailed |-> TRUE])
                   /\ idx' = idx + 1
                   /\ pc' = "summary"
                   /\ err' = err
              ELSE /\ err' = e
                   /\ pc' = "catch"
                   /\ UNCHANGED <<loras, idx>>
    /\ UNCHANGED <<unitVars, injected>>
    /\ UNCHANGED <<entry, maxAttempts, params, promptText, loraPrefix, fetches,
                   tuneErr, response, runVars>>

\* retrieveTune ends in the summary loop: the line shows the tune's details
\* when it validates, the id and weight alone when it does not.
SummaryReturns ==
    /\ pc = "await_summary"
    /\ \E resp \in TuneResponses :
          loras' = Append(loras, [tune_id |-> Lora.tune_id, weight |-> Lora.weight,
                                  detailed |-> ValidateError(Lora.tune_id, resp) = NoError])
    /\ idx' = idx + 1
    /\ pc' = "summary"
    /\ UNCHANGED <<unitVars, injected>>
    /\ UNCHANGED <<entry, maxAttempts, params, promptText, loraPrefix, fetches,
                   tuneErr, response, err, runVars>>

\* The catch block that formats the message itself.
CatchInline ==
    /\ pc = "catch"
    /\ response' = InlineCatch(err)
    /\ pc' = "done"
    /\ UNCHANGED <<unitVars, injected>>
    /\ UNCHANGED <<entry, maxAttempts, params, idx, promptText, loraPrefix, fetches,
                   tuneErr, loras, err, runVars>>

\* The catch block that uses handleMcpError.
CatchMcp ==
    /\ pc = "catch"
    /\ response' = McpCatch(err)
    /\ pc' = "done"
    /\ UNCHANGED <<unitVars, injected>>
    /\ UNCHANGED <<entry, maxAttempts, params, idx, promptText, loraPrefix, fetches,
                   tuneErr, loras, err, runVars>>

Next ==
    \/ Submit
    \/ PostReturns
    \/ PostFails
    \/ PollNext
    \/ GetReturns
    \/ GetFails
    \/ DelayElapses
    \/ ToolParse
    \/ ComposeNext
    \/ TuneReturns
    \/ Respond
    \/ SummaryNext
    \/ SummaryReturns
    \/ CatchInline
    \/ CatchMcp

Spec == Init /\ [][Next]_vars

\* ------------------------------------------------------------------------
\* handleGenerateImage alone, over a wider range of weights
\* ------------------------------------------------------------------------

\* The references of these calls: the weights 0, 0.1, 0.5, 1.0 and 1.1.
ComposeRefs == [tune_id : {1, 2}, weight : {0, 1, 5, 10, 11}]

ComposeParams ==
    [prompt : Prompts, model : {"flux", "sd15"}, lora_tunes : SeqsUpTo(ComposeRefs, MaxRefs)]

\* handleGenerateImage is called; the polling budget is a single attempt.
InitCompose ==
    /\ entry = "tool"
    /\ pc = "tool"
    /\ params \in ComposeParams
    /\ modelName = ""
    /\ maxAttempts = 1
    /\ sentText = <<>>
    /\ raw = NoError
    /\ calls = NoCalls
    /\ Fresh

SpecCompose == InitCompose /\ [][Next]_vars

\* ------------------------------------------------------------------------
\* createErrorFromResponse alone, over the values it can be called with
\* ------------------------------------------------------------------------

\* Response payloads: none, a bare string, and objects with or without an
\* `error` field, a `message` field, an `errors` array and other keys.
ErrorsArrays ==
    {<<>>,
     <<[isObject |-> TRUE, field |-> "name", message |-> "is taken", str |-> ""]>>,
     <<[isObject |-> FALSE, field |-> "", message |-> "", str |-> "too long"]>>}

EntryLists ==
    {<<>>,
     <<[field |-> "text", type |-> "array", values |-> <<"is blank", "is short">>]>>,
     <<[field |-> "text", type |-> "array", values |-> <<"is blank">>],
       [field |-> "name", type |-> "string", values |-> <<"is taken">>]>>,
     <<[field |-> "count", type |-> "other", values |-> <<>>]>>}

ObjectPayloads ==
    {Payload("object", "", e, m, FALSE, <<>>, n) :
        e \in {"", "bad request"}, m \in {"", "not allowed"}, n \in EntryLists}
    \cup
    {Payload("object", "", e, m, TRUE, a, n) :
        e \in {"", "bad request"}, m \in {"", "not allowed"},
        a \in ErrorsArrays, n \in {<<>>}}

Payloads == {NoData, StringData("Not Found")} \cup ObjectPayloads

\* The values thrown at a catch block that calls createErrorFromResponse:
\* failures of the HTTP client with and without a response, errors that are
\* classified already, and errors of any other class.
RawAxios ==
    {AxiosError(st, c, d) :
        st \in {400, 401, 403, 404, 422, 429, 500},
        c \in {"ECONNABORTED", "ERR_NETWORK", "ERR_BAD_REQUEST"},
        d \in Payloads}
    \cup
    {AxiosError(0, c, NoData) : c \in {"ECONNABORTED", "ERR_NETWORK", "ERR_CANCELED", ""}}

RawClassified ==
    {AstriaError(<<"Astria SDK: ", "Unauthorized">>, "AUTH_ERROR", NoDetails, 401),
     AstriaError(<<"LoRA tune ", "1", " is not trained yet">>, "VALIDATION_ERROR",
                 NoDetails, 0),
     PollTimeoutError(FLUX_ID, 1, MAX_ATTEMPTS),
     InvalidModelError}

RawOther ==
    {PlainError(<<"Invalid LoRA tune ID ", "1", ": ", "Astria SDK: ", "Not Found">>),
     PlainError(<<>>),
     ZodError}

RawInputs == RawAxios \cup RawClassified \cup RawOther

InitClassify ==
    /\ entry = "classify"
    /\ pc = "classify"
    /\ params = NoParams
    /\ modelName = ""
    /\ maxAttempts = 0
    /\ sentText = <<>>
    /\ raw \in RawInputs
    /\ calls = NoCalls
    /\ Fresh

\* createErrorFromResponse is called with the raw value.
Classify ==
    /\ pc = "classify"
    /\ once' = createErrorFromResponse(raw)
    /\ pc' = "classified"
    /\ UNCHANGED <<raw, twice, tuneResp, tuneInfo, calls>>
    /\ UNCHANGED <<runArgs, sentText, toolVars, pollVars, failVars>>
    /\ UNCHANGED <<outcome, result, err>>

\* createErrorFromResponse is called with what it returned.
Reclassify ==
    /\ pc = "classified"
    /\ twice' = createErrorFromResponse(once)
    /\ pc' = "reclassified"
    /\ UNCHANGED <<raw, once, tuneResp, tuneInfo, calls>>
    /\ UNCHANGED <<runArgs, sentText, toolVars, pollVars, failVars>>
    /\ UNCHANGED <<outcome, result, err>>

NextClassify == Classify \/ Reclassify

SpecClassify == InitClassify /\ [][NextClassify]_vars

\* ------------------------------------------------------------------------
\* validateLoraTune alone, over the ways retrieveTune can end
\* ------------------------------------------------------------------------

ValidateResponses ==
    TuneResponses \cup {[failed |-> TRUE, tune |-> NoTune, failure |-> f] : f \in RawAxios}

InitValidate ==
    /\ entry = "validate"
    /\ pc = "validate"
    /\ params = NoParams
    /\ modelName = ""
    /\ maxAttempts = 0
    /\ sentText = <<>>
    /\ raw = NoError
    /\ calls = NoCalls
    /\ Fresh

\* validateLoraTune(tuneId) up to its await: retrieveTune is called.
ValidateCall ==
    /\ pc = "validate"
    /\ \E tuneId \in {1, 2} : fetches' = Append(fetches, tuneId)
    /\ pc' = "await_validate"
    /\ UNCHANGED <<params, idx, promptText, loraPrefix, tuneErr, loras, response, injected>>
    /\ UNCHANGED <<unitVars, runArgs, sentText, pollVars, failVars, outcome, result, err>>

\* retrieveTune ends: validateLoraTune returns the tune or throws.
ValidateReturns ==
    /\ pc = "await_validate"
    /\ \E resp \in ValidateResponses :
          LET e == ValidateError(fetches[1], resp)
          IN  /\ tuneResp' = resp
              /\ tuneErr' = e
              /\ tuneInfo' = IF e = NoError THEN resp.tune ELSE NoTune
              /\ pc' = IF e = NoError THEN "validated" ELSE "invalid"
    /\ UNCHANGED <<params, idx, promptText, loraPrefix, fetches, loras, response, injected>>
    /\ UNCHANGED <<raw, once, twice, calls, runArgs, sentText, pollVars, failVars>>
    /\ UNCHANGED <<outcome, result, err>>

NextValidate == ValidateCall \/ ValidateReturns

SpecValidate == InitValidate /\ [][NextValidate]_vars

\* ------------------------------------------------------------------------
\* Two calls of handleGenerateImage at once on the one astriaApi client
\* ------------------------------------------------------------------------

\* Everything but the concurrent calls.
oneCallVars ==
    <<pc, runArgs, sentText, toolVars, pollVars, failVars, outcome, result, err,
      tuneResp, tuneInfo, raw, once, twice>>

\* A call that has parsed its params and is at the head of the reference
\* loop.  Every field but self is a parameter or a local variable of
\* handleGenerateImage, generateImage or pollForPromptCompletion; self tells
\* the calls apart, and asked holds the job ids the call issued a GET for.
NewCall(self, prompt, refs, n) ==
    [self |-> self, prompt |-> prompt, refs |-> refs, N |-> n, pc |-> "compose",
     idx |-> 1, promptText |-> prompt, loraPrefix |-> <<>>, sentText |-> <<>>,
     jobId |-> 0, attempts |-> 0, gets |-> 0, asked |-> {}, outcome |-> "none",
     result |-> NoJob, err |-> NoError]

\* What a step of a call consumes: nothing (a tick), or how a request ended.
Answer(kind, failed, tune, job, error) ==
    [kind |-> kind, failed |-> failed, tune |-> tune, job |-> job, failure |-> error]

Tick == Answer("tick", FALSE, NoTune, NoJob, NoError)

NotFound == AxiosError(404, "ERR_BAD_REQUEST", StringData("Not Found"))

\* The ways the request a call awaits can end.  The service gives the job of
\* call c the id 40 + c.
Answers(call) ==
    IF call.pc \in {"compose", "poll", "delay"} THEN {Tick}
    ELSE IF call.pc = "await_tune"
    THEN {Answer("tune", FALSE, t, NoJob, NoError) :
             t \in {NoTune, TuneInfo(TRUE, "2024-01-01", "lora", Ohwx),
                    TuneInfo(TRUE, "2024-01-01", "lora", <<>>)}}
         \cup {Answer("tune", TRUE, NoTune, NoJob, NotFound)}
    ELSE IF call.pc = "await_post"
    THEN {Answer("post", FALSE, NoTune, Job(id, images, error, 0), NoError) :
             id \in {0, 40 + call.self}, images \in ImageLists, error \in ErrorTexts}
         \cup {Answer("post", TRUE, NoTune, NoJob, NotFound)}
    ELSE IF call.pc = "await_get"
    THEN {Answer("get", FALSE, NoTune, job, NoError) : job \in PollJobs(call.jobId, call.gets)}
         \cup {Answer("get", TRUE, NoTune, NoJob, NotFound)}
    ELSE {}

\* generateImage of the call returns job / throws error.
CallReturns(call, job) == [call EXCEPT !.outcome = "returned", !.result = job, !.pc = "done"]

CallRaises(call, error) == [call EXCEPT !.outcome = "raised", !.err = error, !.pc = "done"]

\* One step of a call: from its own fields, the value att read from the
\* attempts counter of its polling loop, and the answer r it consumes.
CallStep(call, att, r) ==
    IF call.pc = "compose"
    THEN IF call.idx <= Len(call.refs)
         THEN [call EXCEPT !.pc = "await_tune"]
         ELSE [call EXCEPT !.promptText = FinalPrompt(call.loraPrefix, call.promptText),
                           !.sentText = FinalPrompt(call.loraPrefix, call.promptText),
                           !.pc = "await_post"]
    ELSE IF call.pc = "await_tune"
    THEN LET lora == call.refs[call.idx]
             e == ValidateError(lora.tune_id,
                                [failed |-> r.failed, tune |-> r.tune, failure |-> r.failure])
         IN  IF e = NoError
             THEN [call EXCEPT !.loraPrefix = @ \o LoraTag(lora),
                               !.promptText = WithToken(@, r.tune),
                               !.idx = @ + 1,
                               !.pc = "compose"]
             ELSE CallRaises(call, ComposeError(lora, e))
    ELSE IF call.pc = "await_post"
    THEN IF r.failed THEN CallRaises(call, RunCatch(r.failure))
         ELSE IF ShouldPoll(r.job)
         THEN [call EXCEPT !.jobId = r.job.id, !.attempts = 0, !.pc = "poll"]
         ELSE CallReturns([call EXCEPT !.jobId = r.job.id], r.job)
    ELSE IF call.pc = "poll"
    THEN IF LoopContinues(att, call.N)
         THEN [call EXCEPT !.gets = @ + 1, !.asked = @ \cup {call.jobId}, !.pc = "await_get"]
         ELSE CallRaises(call, RunCatch(PollTimeoutError(FLUX_ID, call.jobId, call.N)))
    ELSE IF call.pc = "await_get"
    THEN IF r.failed THEN CallRaises(call, RunCatch(PollCatch(r.failure)))
         ELSE IF ImagesReady(r.job) \/ ErrorDetected(att, r.job)
         THEN CallReturns(call, r.job)
         ELSE [call EXCEPT !.pc = "delay"]
    ELSE IF call.pc = "delay"
    THEN [call EXCEPT !.attempts = att + 1, !.pc = "poll"]
    ELSE call

\* Attempts with one counter for all the calls: that of the first call.
AttemptsShared(c) == calls[1].attempts

\* The attempts counter the polling loop of call c reads: its own local.
Attempts(c) == calls[c].attempts

\* The two calls, their prompts, references and attempt budgets.
InitTwo ==
    /\ entry = "two"
    /\ pc = "two"
    /\ params = NoParams
    /\ modelName = ""
    /\ maxAttempts = 0
    /\ sentText = <<>>
    /\ raw = NoError
    /\ calls \in {[c \in {1, 2} |-> NewCall(c, q[c].prompt, q[c].refs, q[c].n)] :
                    q \in [{1, 2} -> [prompt : Prompts,
                                      refs : {<<>>, <<[tune_id |-> 1, weight |-> 5]>>},
                                      n : {1, 2}]]}
    /\ Fresh

\* Call c goes on by a step that awaits nothing.
CallGoesOn(c) ==
    /\ calls[c].pc \in {"compose", "poll", "delay"}
    /\ calls' = [calls EXCEPT ![c] = CallStep(calls[c], Attempts(c), Tick)]
    /\ UNCHANGED oneCallVars

\* The retrieveTune, the POST or the GET that call c awaits ends.
CallRequestEnds(c) ==
    /\ calls[c].pc \in {"await_tune", "await_post", "await_get"}
    /\ \E r \in Answers(calls[c]) :
          calls' = [calls EXCEPT ![c] = CallStep(calls[c], Attempts(c), r)]
    /\ UNCHANGED oneCallVars

NextTwo == \E c \in {1, 2} : CallGoesOn(c) \/ CallRequestEnds(c)

SpecTwo == InitTwo /\ [][NextTwo]_vars

\* ------------------------------------------------------------------------
\* Properties of the polling engine
\* ------------------------------------------------------------------------

\* generateImage is over.
RunOver == outcome # "none"

\* generateImage entered the polling loop.
Polling == submitted # NoJob /\ ShouldPoll(submitted)

\* C1: when the response to the POST has an id and no images, generateImage
\* resolves to the first polled Job that has images: as soon as the latest
\* polled Job has images, the call has returned that very Job, after exactly
\* one POST and as many GETs as the Job's position among the polls, within the
\* attempt budget.
C1_ResolvesToFirstJobWithImages ==
    (polled # NoJob /\ Len(polled.images) > 0) =>
        /\ Polling
        /\ outcome = "returned"
        /\ result = polled
        /\ posts = 1
        /\ gets = polled.seq
        /\ gets <= maxAttempts

\* Three polls without images and a fourth with images: four GETs, the fourth Job.
C1_Witness ==
    /\ outcome = "returned"
    /\ Len(result.images) > 0
    /\ result.seq = 4
    /\ gets = 4
    /\ posts = 1
    /\ delays = 3

\* C2: when every poll returns a Job with no images and no error, the call
\* ends with a POLLING_TIMEOUT error whose details carry the job id and the
\* attempt budget, after exactly as many GETs as the budget; the caller of
\* generateImage receives it with that code; and no call ever issues more
\* GETs than the budget.
C2_TimeoutAfterBudget ==
    /\ gets <= maxAttempts
    /\ (RunOver /\ gets > 0 /\ allProcessing) =>
          /\ outcome = "raised"
          /\ err.cls = "astria"
          /\ err.code = "POLLING_TIMEOUT"
          /\ err.details = PollDetails(FLUX_ID, submitted.id, maxAttempts)
          /\ submitted.id # 0
          /\ gets = maxAttempts

\* A budget of five, five processing polls, the timeout error.
C2_Witness ==
    /\ outcome = "raised"
    /\ err.code = "POLLING_TIMEOUT"
    /\ allProcessing
    /\ maxAttempts = 5
    /\ gets = 5

\* C3 (as claimed): when the response to the POST has an error, the call
\* returns that Job at once, with no GET and no delay.
C3_SubmitErrorReturnsAtOnce ==
    (submitted # NoJob /\ submitted.error # "") =>
        /\ outcome = "returned"
        /\ result = submitted
        /\ gets = 0
        /\ delays = 0

\* C4: when the response to the POST has images, the call returns that Job at
\* once, with no GET and no delay.
C4_SubmitImagesReturnAtOnce ==
    (submitted # NoJob /\ Len(submitted.images) > 0) =>
        /\ outcome = "returned"
        /\ result = submitted
        /\ gets = 0
        /\ delays = 0

\* The response to the POST has an id and images, and was returned.
C4_Witness ==
    /\ submitted.id # 0
    /\ Len(submitted.images) > 0
    /\ outcome = "returned"
    /\ result = submitted

\* C5: a polled Job with an error and no images does not end the call when at
\* most WarmUp iterations had elapsed at its GET (the GETs 1 .. WarmUp + 1):
\* the loop goes on to the delay.  At any later GET it ends the call, which
\* returns that Job with no further GET.
C5_ErrorAfterWarmUpOnly ==
    /\ (IsFailed(polled) /\ polled.seq <= WarmUp + 1) =>
          /\ outcome # "returned"
          /\ result = NoJob
          /\ (gets = polled.seq => pc \in {"delay", "poll"} \/ outcome = "raised")
    /\ (IsFailed(polled) /\ polled.seq > WarmUp + 1) =>
          /\ outcome = "returned"
          /\ result = polled
          /\ gets = polled.seq
    /\ (pc = "delay" /\ polled.error # "") => attempts <= WarmUp

\* The first GET after the threshold sees an error and ends the call.
C5_Witness ==
    /\ outcome = "returned"
    /\ IsFailed(result)
    /\ result.seq = WarmUp + 2
    /\ gets = WarmUp + 2

\* C6: when a GET fails, the call has raised the classified form of that
\* failure and nothing followed the failed GET: it was the GET after the
\* last elapsed iteration, and no delay was waited after it.
C6_GetFailureAborts ==
    (failedReq = "GET") =>
        /\ outcome = "raised"
        /\ err = createErrorFromResponse(failure)
        /\ err.cls = "astria"
        /\ err.code = AxiosCode(failure)
        /\ gets = attempts + 1
        /\ delays = attempts
        /\ pc \notin {"poll", "await_get", "delay"}

\* The third GET fails with a 404 although the budget allows more.
C6_Witness ==
    /\ failedReq = "GET"
    /\ failure.status = 404
    /\ gets = 3
    /\ maxAttempts > 3
    /\ err.code = "RESOURCE_NOT_FOUND"

\* C7 (as claimed): a call with a valid model name ends in exactly one of
\* COMPLETED, FAILED, TIMED_OUT or a classified transport error, after at most
\* one POST and at most as many GETs as the budget.
C7_EndsInOneOfFourOutcomes ==
    (RunOver /\ ValidModelName(modelName)) =>
        /\ posts <= 1
        /\ gets <= maxAttempts
        /\ \/ outcome = "returned" /\ IsCompleted(result)
           \/ outcome = "returned" /\ IsFailed(result)
           \/ outcome = "raised" /\ err.code = "POLLING_TIMEOUT" /\ failedReq = ""
           \/ outcome = "raised" /\ failedReq # ""
                 /\ err = createErrorFromResponse(failure)

\* C8 (as claimed): the call never returns a Job that is still processing.
C8_NeverReturnsProcessingJob ==
    (outcome = "returned") => ~IsProcessing(result)

\* ------------------------------------------------------------------------
\* Properties of the prompt composer
\* ------------------------------------------------------------------------

\* The composer failed on the reference at idx.
ComposeFailed == tuneErr # NoError

\* C9 (as claimed): when the composer fails on a reference, the error that
\* reaches the caller has the code of the validator's error.
C9_AnnotationKeepsKind ==
    ComposeFailed => McpAstriaError(err).code = tuneErr.code

\* C10: when the composer fails on a reference, the tunes fetched are those of
\* the references up to the failing one, once each and in the caller's order,
\* no later reference's tune is fetched, and the error names the failing
\* reference's tune id.
C10_FailFastInCallerOrder ==
    ComposeFailed =>
        /\ idx \in 1..Len(params.lora_tunes)
        /\ fetches = [j \in 1..idx |-> params.lora_tunes[j].tune_id]
        /\ err.msg[1] = "Invalid LoRA tune ID "
        /\ err.msg[2] = ToString(params.lora_tunes[idx].tune_id)

\* Two references, the first fails: tune 1 is fetched, tune 2 is not.
C10_Witness ==
    /\ ComposeFailed
    /\ Len(params.lora_tunes) = 2
    /\ params.lora_tunes[1].tune_id = 1
    /\ params.lora_tunes[2].tune_id = 2
    /\ idx = 1
    /\ fetches = <<1>>
    /\ pc = "done"

\* ------------------------------------------------------------------------
\* Properties of the prompt composer
\* ------------------------------------------------------------------------

\* handleGenerateImage got as far as calling generateImage.
Composed == entry = "tool" /\ sentText # <<>>

\* The base prompt with the added tokens: each goes in front of the text so far.
RECURSIVE TextWithTokens(_, _)
TextWithTokens(text, toks) ==
    IF toks = <<>> THEN text
    ELSE TextWithTokens(Head(toks) \o <<" ">> \o text, Tail(toks))

\* One tag per reference, in the order of the list, the weight as JavaScript
\* prints the number: 0.5 is "0.5" and 1.0 is "1".
RECURSIVE Tags(_)
Tags(refs) ==
    IF refs = <<>> THEN <<>>
    ELSE <<"<lora:", ToString(Head(refs).tune_id), ":">>
            \o WeightToString(Head(refs).weight) \o <<">">> \o Tags(Tail(refs))

\* The same with the weight printed with one decimal: 1.0 is "1.0".
RECURSIVE TagsOneDecimal(_)
TagsOneDecimal(refs) ==
    IF refs = <<>> THEN <<>>
    ELSE <<"<lora:", ToString(Head(refs).tune_id), ":",
           ToString(Head(refs).weight \div 10), ".", ToString(Head(refs).weight % 10), ">">>
            \o TagsOneDecimal(Tail(refs))

\* The call of the example: "a cat" with the references {1, 0.5} and {2, 1.0},
\* the token "ohwx" added once.
ExampleCall ==
    /\ Composed
    /\ params.prompt = <<"a", " ", "c", "a", "t">>
    /\ params.lora_tunes = <<[tune_id |-> 1, weight |-> 5], [tune_id |-> 2, weight |-> 10]>>
    /\ injected = <<Ohwx>>

C12_TokenAddedOnlyWhenAbsent ==
    entry = "tool" =>
        /\ \A k \in 1..Len(injected) :
              /\ injected[k] # <<>>
              /\ ~Includes(TextWithTokens(params.prompt, SubSeq(injected, 1, k - 1)),
                           injected[k])
        /\ \A j, k \in 1..Len(injected) : j < k => injected[j] # injected[k]
        /\ pc \in {"compose", "await_tune"} =>
              promptText = TextWithTokens(params.prompt, injected)

C12_Witness ==
    /\ Composed
    /\ Len(params.lora_tunes) = 2
    /\ injected = <<Oh, Ohwx>>
    /\ sentText = Tags(params.lora_tunes) \o <<" ">> \o Ohwx \o <<" ">> \o Oh \o <<" ">>
                      \o <<"a", " ", "c", "a", "t">>

\* Every weight of the call is within 0.1..1.0.
WeightsInRange ==
    \A i \in 1..Len(params.lora_tunes) :
        params.lora_tunes[i].weight >= 1 /\ params.lora_tunes[i].weight <= 10

\* handleGenerateImage ended without a request to the service.
RefusedBeforeNetwork ==
    /\ pc \in {"catch", "done"}
    /\ fetches = <<>>
    /\ posts = 0
    /\ gets = 0
    /\ pc = "done" => response.isError

\* C13: a call whose weights are all within 0.1..1.0 (the limits included), for
\* the flux model, is not refused by the composer; a call with a weight outside
\* the range, or with references and another model, is refused before any
\* request: no tune fetch, no POST, no GET.
C13_RefusedBeforeAnyRequest ==
    (entry = "tool" /\ pc # "tool") =>
        /\ (WeightsInRange /\ params.model = "flux") => ~RefusedBeforeNetwork
        /\ (~WeightsInRange \/ (params.lora_tunes # <<>> /\ params.model # "flux"))
              => RefusedBeforeNetwork

C13_Witness ==
    /\ entry = "tool"
    /\ pc = "done"
    /\ params.model = "flux"
    /\ Len(params.lora_tunes) = 2
    /\ params.lora_tunes[1].weight = 1
    /\ params.lora_tunes[2].weight = 11
    /\ RefusedBeforeNetwork

\* ------------------------------------------------------------------------
\* Properties of the error classifier
\* ------------------------------------------------------------------------

\* createErrorFromResponse has returned for the raw value.
Classified == pc \in {"classified", "reclassified"}

\* C14: classifying what the classifier returned gives the same error again,
\* and a value that is an AstriaError already comes back as it is: same code,
\* message, details and httpStatus, no second "Astria SDK: " prefix.
C14_ClassifyIsIdempotent ==
    /\ pc = "reclassified" => twice = once
    /\ (Classified /\ raw.cls = "astria") => once = raw

C14_Witness ==
    /\ pc = "reclassified"
    /\ raw.cls = "axios"
    /\ raw.status = 404
    /\ raw.data = StringData("Not Found")
    /\ twice = AstriaError(<<"Astria SDK: ", "Not Found">>, "RESOURCE_NOT_FOUND",
                           AxiosDetails(raw), 404)

\* The kind the statuses are said to map to.
KindOfStatus(status) ==
    CASE status \in {401, 403} -> "AUTH_ERROR"
      [] status = 404 -> "RESOURCE_NOT_FOUND"
      [] status = 422 -> "VALIDATION_ERROR"
      [] status = 429 -> "RATE_LIMIT_ERROR"
      [] OTHER -> "API_ERROR"

\* C15: for a failure of the HTTP client that carries a status, the code is a
\* function of the status alone: 401 and 403 give AUTH_ERROR, 404
\* RESOURCE_NOT_FOUND, 422 VALIDATION_ERROR, 429 RATE_LIMIT_ERROR and any other
\* status API_ERROR, whatever the axios code and the payload of the failure.
C15_KindFollowsStatus ==
    (Classified /\ raw.cls = "axios" /\ raw.status # 0) =>
        /\ once.code = KindOfStatus(raw.status)
        /\ once.status = raw.status

C15_Witness ==
    /\ Classified
    /\ raw.cls = "axios"
    /\ raw.status = 429
    /\ raw.code = "ECONNABORTED"
    /\ raw.data.shape = "object"
    /\ once.code = "RATE_LIMIT_ERROR"

\* The raw value is a failure of the HTTP client without a response.
NoStatus == raw.cls = "axios" /\ raw.status = 0

\* C16: without a status, the timeout code gives TIMEOUT_ERROR and the network
\* code NETWORK_ERROR; an error that is neither a failure of the HTTP client
\* nor an AstriaError gives SDK_ERROR; UNKNOWN_ERROR comes out only for a
\* failure of the HTTP client with no status and neither of the two codes.
C16_KindWithoutStatus ==
    Classified =>
        /\ (NoStatus /\ raw.code = "ECONNABORTED") => once.code = "TIMEOUT_ERROR"
        /\ (NoStatus /\ raw.code = "ERR_NETWORK") => once.code = "NETWORK_ERROR"
        /\ raw.cls \notin {"axios", "astria"} => once.code = "SDK_ERROR"
        /\ once.code = "UNKNOWN_ERROR" =>
              NoStatus /\ raw.code \notin {"ECONNABORTED", "ERR_NETWORK"}

C16_Witness ==
    /\ Classified
    /\ raw = ZodError
    /\ once.code = "SDK_ERROR"
    /\ once.msg = <<"Astria SDK: ", "invalid input">>

\* The raw value is a failure of the HTTP client whose payload is an object.
ObjectPayload == raw.cls = "axios" /\ raw.data.shape = "object"

\* The text of the keyed values of the payload: "field: msg1, msg2" per key,
\* joined with "; ".
KeyedText == Join(EntryMessages(raw.data.entries), "; ")

\* "API error (<status>)"
GenericText == <<"API error (", ToString(raw.status), ")">>

\* C17: for an object payload the message is the `error` field when there is
\* one, else the `message` field, keyed arrays present or not; the text of the
\* keyed values is used only when the payload has neither field, and is the
\* message then unless the payload has an `errors` array; the generic "API
\* error (<status>)" is used only when there is neither such a field nor any
\* keyed text.
C17_MessagePrecedence ==
    (Classified /\ ObjectPayload) =>
        /\ raw.data.error # "" => once.msg = <<"Astria SDK: ", raw.data.error>>
        /\ (raw.data.error = "" /\ raw.data.message # "")
              => once.msg = <<"Astria SDK: ", raw.data.message>>
        /\ (KeyedText # <<>> /\ once.msg = <<"Astria SDK: ">> \o KeyedText)
              => (raw.data.error = "" /\ raw.data.message = "")
        /\ (raw.data.error = "" /\ raw.data.message = "" /\ ~raw.data.isArray
                /\ KeyedText # <<>>)
              => once.msg = <<"Astria SDK: ">> \o KeyedText
        /\ once.msg = <<"Astria SDK: ">> \o GenericText
              => (raw.data.error = "" /\ raw.data.message = "" /\ KeyedText = <<>>)

C17_Witness ==
    /\ Classified
    /\ ObjectPayload
    /\ raw.data.error = "bad request"
    /\ raw.data.message = "not allowed"
    /\ KeyedText = <<"text", ": ", "is blank", "; ", "name", ": ", "is taken">>
    /\ once.msg = <<"Astria SDK: ", "bad request">>

\* ------------------------------------------------------------------------
\* Properties of the tune validator
\* ------------------------------------------------------------------------

\* validateLoraTune is over.
Validated == pc \in {"validated", "invalid"}

\* retrieveTune returned a tune.
Fetched == Validated /\ ~tuneResp.failed /\ tuneResp.tune.truthy

\* validateLoraTune threw an AstriaError of the given code and returned nothing.
FailsWith(code) ==
    /\ pc = "invalid"
    /\ tuneErr.cls = "astria"
    /\ tuneErr.code = code
    /\ tuneInfo = NoTune

\* C18: when retrieveTune returns a tune whose trained_at is null,
\* validateLoraTune throws VALIDATION_ERROR, not RESOURCE_NOT_FOUND or
\* AUTH_ERROR, and returns no record, whatever the tune's model_type.
C18_UntrainedIsValidationError ==
    (Fetched /\ tuneResp.tune.trained_at = "") => FailsWith("VALIDATION_ERROR")

C18_Witness ==
    /\ Fetched
    /\ tuneResp.tune.trained_at = ""
    /\ tuneResp.tune.model_type = "lora"
    /\ FailsWith("VALIDATION_ERROR")
    /\ tuneErr.msg[3] = " exists but is not trained yet."

\* C19: when retrieveTune returns a tune whose model_type is not 'lora', null
\* included, validateLoraTune throws VALIDATION_ERROR, trained or not; so the
\* record it returns is always the fetched one, of type 'lora' and trained.
C19_OtherTypeIsValidationError ==
    /\ (Fetched /\ tuneResp.tune.model_type # "lora") => FailsWith("VALIDATION_ERROR")
    /\ pc = "validated" =>
          /\ Fetched
          /\ tuneInfo = tuneResp.tune
          /\ tuneInfo.model_type = "lora"
          /\ tuneInfo.trained_at # ""

C19_Witness ==
    /\ Fetched
    /\ tuneResp.tune.trained_at # ""
    /\ tuneResp.tune.model_type = ""
    /\ FailsWith("VALIDATION_ERROR")
    /\ tuneErr.msg[4] = "unknown"

\* C20: when retrieveTune fails, validateLoraTune throws the classifier's
\* error as it is: 404 gives RESOURCE_NOT_FOUND, 401 and 403 AUTH_ERROR, a
\* timeout TIMEOUT_ERROR, and the catch block does not wrap it as API_ERROR;
\* nor does it wrap the validator's own RESOURCE_NOT_FOUND and
\* VALIDATION_ERROR.
C20_ValidatorKeepsTheError ==
    Validated =>
        /\ tuneResp.failed =>
              /\ pc = "invalid"
              /\ tuneErr = createErrorFromResponse(tuneResp.failure)
              /\ tuneResp.failure.status = 404 => tuneErr.code = "RESOURCE_NOT_FOUND"
              /\ tuneResp.failure.status \in {401, 403} => tuneErr.code = "AUTH_ERROR"
              /\ (tuneResp.failure.status = 0 /\ tuneResp.failure.code = "ECONNABORTED")
                    => tuneErr.code = "TIMEOUT_ERROR"
        /\ (~tuneResp.failed /\ ~tuneResp.tune.truthy) => FailsWith("RESOURCE_NOT_FOUND")
        /\ (pc = "invalid" /\ ~tuneResp.failed)
              => /\ tuneErr.code \in {"RESOURCE_NOT_FOUND", "VALIDATION_ERROR"}
                 /\ tuneErr.msg[1] \in {"LoRA tune with ID ", "Tune with ID "}

C20_Witness ==
    /\ pc = "invalid"
    /\ tuneResp.failed
    /\ tuneResp.failure.status = 0
    /\ tuneResp.failure.code = "ECONNABORTED"
    /\ tuneErr = AstriaError(<<"Astria SDK: ", "Request failed">>, "TIMEOUT_ERROR",
                             NoDetails, 0)

\* ------------------------------------------------------------------------
\* Properties of the tool response and of the requests of a call
\* ------------------------------------------------------------------------

\* C21: when generateImage returns a Job, polled under its id, with an error
\* and no images, the response of the generate_image tool is marked as an
\* error and its text holds the Job's error message.
C21_FailedJobIsErrorResponse ==
    (entry = "tool" /\ pc = "done" /\ outcome = "returned" /\ Polling /\ IsFailed(result))
        => /\ response.isError
           /\ \E i \in 1..Len(response.text) : response.text[i] = result.error

\* C22: in the polling loop every GET, the first one included, comes after a
\* delay of its own, and no delay follows the last GET: there are never more
\* GETs than delays, and when generateImage is over there are as many.
C22_DelayBeforeEveryGet ==
    /\ gets <= delays
    /\ RunOver => delays = gets

C24_OneFetchAtATime ==
    (entry = "tool" /\ posts = 0 /\ pc \in {"compose", "await_tune", "catch", "run"}) =>
        LET passed == Tags(SubSeq(params.lora_tunes, 1, Len(fetches) - 1))
        IN  /\ Len(fetches) <= idx
            /\ pc = "await_tune" => (Len(fetches) = idx /\ ~ComposeFailed)
            /\ pc \in {"compose", "run"} => Len(fetches) = idx - 1
            /\ SubSeq(loraPrefix, 1, Len(passed)) = passed

C24_Witness ==
    /\ entry = "tool"
    /\ pc = "await_tune"
    /\ idx = 2
    /\ fetches = <<params.lora_tunes[1].tune_id, params.lora_tunes[2].tune_id>>
    /\ loraPrefix = Tags(<<params.lora_tunes[1]>>)

\* The error is not an AstriaError whose details are another AstriaError.
Flat(error) == error.cls = "astria" => error.details.kind # "astria"

\* C25: no AstriaError has another AstriaError as its details: the errors
\* thrown by generateImage and by validateLoraTune are flat, and an error
\* classified inside the polling loop leaves generateImage as it was made.
C25_ErrorsAreFlat ==
    /\ Flat(err)
    /\ Flat(tuneErr)
    /\ (entry = "run" /\ outcome = "raised") => err.cls = "astria"
    /\ failedReq = "GET" => err = createErrorFromResponse(failure)
    /\ (outcome = "raised" /\ failedReq = "" /\ ValidModelName(modelName))
          => err = PollTimeoutError(FLUX_ID, submitted.id, maxAttempts)

C25_Witness ==
    /\ entry = "run"
    /\ failedReq = "GET"
    /\ failure.status = 401
    /\ err = AstriaError(<<"Astria SDK: ", "Unauthorized">>, "AUTH_ERROR",
                         AxiosDetails(failure), 401)

\* ------------------------------------------------------------------------
\* Properties of concurrent calls
\* ------------------------------------------------------------------------

\* Call c issued no more GETs than its budget, and only for its own job.
OwnGetsOnly(c) ==
    /\ calls[c].gets <= calls[c].N
    /\ calls[c].asked \subseteq {calls[c].jobId}
    /\ calls[c].jobId \in {0, 40 + c}
    /\ calls[c].attempts <= calls[c].gets

\* A step of the interleaving is the step one call takes alone, from its own
\* fields and its own counter, and leaves every other call as it was.
StepOfOneCallAlone ==
    \E c \in DOMAIN calls : \E r \in Answers(calls[c]) :
        calls' = [calls EXCEPT ![c] = CallStep(calls[c], calls[c].attempts, r)]

\* C26: in every interleaving of two calls each call issues at most N GETs,
\* all of them for its own job id, and every step is the step one call takes
\* when run alone with the same responses: it reads and writes only that
\* call's attempt counter, prefix and prompt accumulators, so the outcome of
\* each call is the one it has alone.
C26_ConcurrentCallsAreIndependent ==
    /\ [](\A c \in DOMAIN calls : OwnGetsOnly(c))
    /\ [][StepOfOneCallAlone]_vars

\* Both calls are in their polling loops at different counts, each with its
\* own job and the prompt composed from its own references.
C26_Witness ==
    /\ entry = "two"
    /\ calls[1].pc = "await_get" /\ calls[1].attempts = 1 /\ calls[1].gets = 2
    /\ calls[2].pc = "delay" /\ calls[2].attempts = 0 /\ calls[2].gets = 1
    /\ calls[1].asked = {41} /\ calls[2].asked = {42}
    /\ calls[1].refs = <<>> /\ calls[2].refs # <<>>
    /\ calls[1].sentText = calls[1].prompt
    /\ calls[2].sentText = Tags(calls[2].refs) \o <<" ">> \o Ohwx \o <<" ">> \o calls[2].prompt

\* ------------------------------------------------------------------------
\* Properties of the order of composition, submission and summary
\* ------------------------------------------------------------------------

\* C27: the POST is issued only after the tune of every reference was fetched,
\* in the caller's order, and validated; a call that is refused at parsing or
\* in which a reference fails validation or its fetch fails issues no POST
\* and no GET.
C27_NoSubmitUnlessComposed ==
    entry = "tool" =>
        /\ ComposeFailed => (posts = 0 /\ gets = 0 /\ sentText = <<>>)
        /\ (pc \in {"catch", "done"} /\ sentText = <<>>) => (posts = 0 /\ gets = 0)
        /\ posts > 0 =>
              /\ ~ComposeFailed
              /\ Len(fetches) >= Len(params.lora_tunes)
              /\ \A i \in 1..Len(params.lora_tunes) : fetches[i] = params.lora_tunes[i].tune_id
              /\ loraPrefix = Tags(params.lora_tunes)

\* The second of two references failed validation and the call ended with the
\* error response after two fetches, no POST and no GET.
C27_Witness ==
    /\ entry = "tool"
    /\ pc = "done"
    /\ Len(params.lora_tunes) = 2
    /\ ComposeFailed
    /\ idx = 2
    /\ Len(fetches) = 2
    /\ loraPrefix = Tags(<<params.lora_tunes[1]>>)
    /\ posts = 0
    /\ gets = 0
    /\ response.isError

\* C28: a polled Job with images and an error ends generateImage at that
\* poll, whatever the count of elapsed iterations, and is returned as it is,
\* a COMPLETED Job; the tool answers it with the success response.  A Job the
\* polling loop returns without images is one whose error was seen after the
\* warm-up iterations.
C28_ImagesBeforeError ==
    /\ (Polling /\ polled # NoJob /\ Len(polled.images) > 0 /\ polled.error # "") =>
          /\ outcome = "returned"
          /\ result = polled
          /\ IsCompleted(result)
          /\ gets = polled.seq
          /\ (entry = "tool" /\ pc = "done") => response = SuccessResponse(result.images, loras)
    /\ (Polling /\ outcome = "returned" /\ ~IsCompleted(result)) =>
          (IsFailed(result) /\ attempts > WarmUp)

\* The third GET, before the warm-up is over, answered with a Job that has an
\* image and an error, and generateImage returned it.
C28_Witness ==
    /\ entry = "run"
    /\ Polling
    /\ gets = 3
    /\ attempts = 2
    /\ attempts <= WarmUp
    /\ polled.images # <<>>
    /\ polled.error = "boom"
    /\ outcome = "returned"
    /\ result = polled

\* C29: generateImage returns a polled Job with an error and no images at
\* the 12th GET at the earliest, so only with a budget of 12 or more; with a
\* budget N of 11 or less, a call whose polls all answered and whose latest
\* polled Job has an error and no images has ended with POLLING_TIMEOUT after
\* exactly N GETs.
C29_NoFailedWithinElevenGets ==
    /\ (Polling /\ outcome = "returned" /\ IsFailed(result)) =>
          (gets >= 12 /\ maxAttempts >= 12 /\ result.seq = gets)
    /\ (Polling /\ maxAttempts <= 11 /\ RunOver /\ failedReq = "" /\ IsFailed(polled)) =>
          /\ outcome = "raised"
          /\ err = PollTimeoutError(FLUX_ID, submitted.id, maxAttempts)
          /\ gets = maxAttempts
          /\ polled.seq = maxAttempts

\* With a budget of 11, the 11th GET answered with an error and no images
\* and generateImage ended with POLLING_TIMEOUT.
C29_Witness ==
    /\ entry = "run"
    /\ maxAttempts = 11
    /\ Polling
    /\ gets = 11
    /\ IsFailed(polled)
    /\ polled.seq = 11
    /\ outcome = "raised"
    /\ err.code = "POLLING_TIMEOUT"

\* C30: once generateImage returned images, the call ends with the success
\* response that carries them, whatever the second fetch of each tune
\* answers: no error is raised, and the summary lists every reference, in the
\* caller's order, with its id and weight, with the tune's details or without.
C30_SummaryIsBestEffort ==
    (entry = "tool" /\ outcome = "returned" /\ Len(result.images) > 0) =>
        /\ pc \in {"respond", "summary", "await_summary", "done"}
        /\ err = NoError
        /\ pc \in {"summary", "await_summary"} => Len(loras) = idx - 1
        /\ Len(loras) <= Len(params.lora_tunes)
        /\ \A i \in 1..Len(loras) :
              /\ loras[i].tune_id = params.lora_tunes[i].tune_id
              /\ loras[i].weight = params.lora_tunes[i].weight
        /\ pc = "done" =>
              /\ response = SuccessResponse(result.images, loras)
              /\ ~response.isError
              /\ Len(response.loras) = Len(params.lora_tunes)

\* Both references validated during composition; at summary time the first
\* did not validate any more and the second did: the response is the success
\* response, the first line without details and the second with them.
C30_Witness ==
    /\ entry = "tool"
    /\ pc = "done"
    /\ Len(params.lora_tunes) = 2
    /\ loraPrefix = Tags(params.lora_tunes)
    /\ Len(fetches) = 4
    /\ Len(result.images) > 0
    /\ ~response.isError
    /\ response.images = result.images
    /\ Len(response.loras) = 2
    /\ ~response.loras[1].detailed
    /\ response.loras[2].detailed

====
